---- MODULE Spec2Model ----
(***************************************************************************)
(* zustand-refined: createGlobalState / createProviderState / useRefMemo,  *)
(* and the earlier factories createLocalStore and createStoreWithActions.  *)
(*                                                                         *)
(* The JavaScript heap is modelled by two functions: `heap` maps the       *)
(* identity of every reachable zustand store to its state, `actionsHeap`   *)
(* maps the identity of every reachable actions object (a value returned   *)
(* by config.actions) to its closure: the store whose setState it got and  *)
(* the props it was created with.  An object no reference reaches is       *)
(* dropped, as no code can observe it; a new object gets an identity that  *)
(* no reachable object has.                                                *)
(*                                                                         *)
(* The React tree has three places for a StoreProvider of one              *)
(* createProviderState factory: 1 and 2 are siblings at the root, 3 is     *)
(* nested below 1.  Consumer components sit at every place c (children of  *)
(* Provider c; place 0 is outside every Provider): one calls the hook with *)
(* a selector, one without, one calls useActions.  React renders them in   *)
(* the same pass as the Provider above them and again whenever the store   *)
(* they subscribe to changes, so what their latest render returned is a    *)
(* function of the state: View.                                            *)
(*                                                                         *)
(* The StoreProviders of createLocalStore and of createStoreWithActions    *)
(* are rendered at the same places, each in a specification of its own.    *)
(*                                                                         *)
(* The configs are those of the examples: the counter of                   *)
(* counter-context.stories.tsx for createProviderState, the bears and      *)
(* fishes of anti-patterns.improved.stories.tsx for createGlobalState.     *)
(***************************************************************************)
EXTENDS Integers, Sequences, FiniteSets, TLC

VARIABLES
  heap,         \* heap[s]: what getState() of the store s returns
  actionsHeap,  \* actionsHeap[a]: the closure [cfg, store, props] of the actions object a
  gDone,        \* gDone[g]: createGlobalState call g has returned
  gRet,         \* gRet[g]: the tuple createGlobalState call g returned
  gCfg,         \* gCfg[g]: what config.store / hooks / actions returned in call g
  gMounted,     \* gMounted[g]: the components using the hooks of call g are mounted
  gShown,       \* gShown[g][c]: what the hook returned in the latest render of component c
  pDone,        \* createProviderState has returned
  pRet,         \* the tuple createProviderState returned
  pCfg,         \* what config.hooks returned in createProviderState
  pName,        \* config.displayName of the createProviderState call
  mounted,      \* mounted[p]: a StoreProvider is mounted at place p
  refStore,     \* refStore[p]: the useRef cell of useRefMemo(() => config.store(props))
  refActions,   \* refActions[p]: the useRef cell of useRefMemo(() => config.actions(..), props)
  jsx,          \* jsx[p]: the props (children included) of the Provider's latest render
  stale,        \* actions objects no longer provided that a closure (handler, timer) kept
  nSet,         \* number of setState calls made so far
  memo,         \* a component instance that calls useRefMemo(factory, deps) in its renders
  factoryB,     \* a second createProviderState call and the StoreProviders it returned
  globalStore,  \* the globalStore of createStoreWithActions, once it has returned
  last          \* the latest operation and the config functions it called, in order

vars == <<heap, actionsHeap, gDone, gRet, gCfg, gMounted, gShown, pDone, pRet, pCfg, pName,
          mounted, refStore, refActions, jsx, stale, nSet, memo, factoryB,
          globalStore, last>>

globalVars == <<gDone, gRet, gCfg>>
globalTreeVars == <<gMounted, gShown>>
factoryVars == <<pDone, pRet, pCfg, pName>>
treeVars == <<mounted, refStore, refActions, jsx>>

----------------------------------------------------------------------------
(* Bounds *)

MaxSets == 2       \* setState calls in one behaviour
MaxStale == 1      \* actions objects kept by closures that were never cleaned up
MaxRenders == 6    \* renders of the component instance that calls useRefMemo

----------------------------------------------------------------------------
(* The tree and the inputs *)

Providers == {1, 2, 3}
Parent(p) == IF p = 3 THEN 1 ELSE 0
Places == {0} \cup Providers
Globals == {1, 2}

RECURSIVE Ancestors(_)
Ancestors(p) == IF p = 0 THEN {} ELSE {p} \cup Ancestors(Parent(p))
Descendants(p) == {q \in Providers : p \in Ancestors(q)}

EmptyProps == [k \in {} |-> 0]
PropsWithoutChildren ==
  {EmptyProps, [initialCount |-> 50], [incrementBy |-> 1], [incrementBy |-> 10]}
Children == {"c1", "c2"}
JsxProps == {f @@ [children |-> ch] : f \in PropsWithoutChildren, ch \in Children}

(* The application: <CounterProvider {...any}> at place 1, with a nested
   <CounterProvider> or <CounterProvider incrementBy={10}> at place 3, and
   <CounterProvider initialCount={50}> at place 2 *)
JsxPropsAt(p) ==
  IF p = 1 THEN JsxProps
  ELSE IF p = 2 THEN {[initialCount |-> 50, children |-> "c1"]}
  ELSE {[children |-> "c1"], [incrementBy |-> 10, children |-> "c1"]}

(* JavaScript values that are either undefined or an object *)
Undefined == [t |-> "undefined", v |-> EmptyProps]
Obj(o) == [t |-> "object", v |-> o]

----------------------------------------------------------------------------
(* The heap *)

(* The identity of the next object created in the heap h by the code at
   `site` (Provider place p: site p; createGlobalState call g: site 3 + g):
   10 * site + k for the least k >= 1 that no reachable object of the site has. *)
GlobalSite(g) == 3 + g
RECURSIVE LeastFree(_, _, _)
LeastFree(h, site, k) ==
  IF 10 * site + k \in DOMAIN h THEN LeastFree(h, site, k + 1) ELSE 10 * site + k
NewId(h, site) == LeastFree(h, site, 1)
Alloc(h, site, x) ==
  [i \in DOMAIN h \cup {NewId(h, site)} |-> IF i \in DOMAIN h THEN h[i] ELSE x]
Restrict(h, ids) == [i \in DOMAIN h \cap ids |-> h[i]]
EmptyHeap == [i \in {} |-> 0]

----------------------------------------------------------------------------
(* zustand: shallow, createStore, setState, useStore *)

(* shallow(valueA, valueB) of zustand/vanilla/shallow on the values useRefMemo
   passes: undefined or a plain props object.  Object.is decides for
   undefined; two plain objects are compared entry by entry. *)
CompareEntries(a, b) ==
  /\ Cardinality(DOMAIN a) = Cardinality(DOMAIN b)
  /\ \A k \in DOMAIN a : k \in DOMAIN b /\ a[k] = b[k]
shallowObjectsOnly(valueA, valueB) ==
  IF valueA.t = "undefined" \/ valueB.t = "undefined"
  THEN FALSE
  ELSE CompareEntries(valueA.v, valueB.v)
shallow(valueA, valueB) ==
  IF valueA.t = "undefined" \/ valueB.t = "undefined"
  THEN valueA.t = valueB.t
  ELSE CompareEntries(valueA.v, valueB.v)

(* createStore(() => initial): a new store holding `initial` *)
CreateStore(h, site, initial) == Alloc(h, site, initial)

(* store.setState(partial): shallow merge of partial into the state *)
MergeKeepOld(state, partial) ==
  [k \in DOMAIN state \cup DOMAIN partial |->
     IF k \in DOMAIN state THEN state[k] ELSE partial[k]]
Merge(state, partial) ==
  [k \in DOMAIN state \cup DOMAIN partial |->
     IF k \in DOMAIN partial THEN partial[k] ELSE state[k]]
SetStateDeferred(h, store, partial) == h
SetState(h, store, partial) == [h EXCEPT ![store] = Merge(h[store], partial)]

(* useStore(store, selector) / useStore(store): what the render reads *)
Returned(num, obj) == [threw |-> FALSE, num |-> num, obj |-> obj, message |-> ""]
(* throw new Error(message) *)
Throw(message) == [threw |-> TRUE, num |-> 0, obj |-> EmptyProps, message |-> message]
UseStore(h, store, selector) ==
  IF selector = "none"
  THEN Returned(0, h[store])
  ELSE Returned(h[store][selector], EmptyProps)

(* a ?? b on an optional prop *)
Nullish(props, k, dflt) == IF k \in DOMAIN props THEN props[k] ELSE dflt

----------------------------------------------------------------------------
(* The configs *)

(* createGlobalState({store: () => createStore(() => ({bears: 0, fishes: 0})), ...}) *)
GlobalConfigStore(h, site) == CreateStore(h, site, [bears |-> 0, fishes |-> 0])
GlobalConfigActions(store) == [cfg |-> "G", store |-> store, props |-> EmptyProps]
GlobalConfigHooks(useBoundStore) == [kind |-> "hooks", id |-> useBoundStore.store]
GlobalMethods == {"increaseBears", "removeAllBears", "updateBears", "increaseFish"}
(* the arguments the callers pass: updateBears(newBears); the others take none *)
NewBears == {5}
NoArg == 0
MethodArgs(method) == IF method = "updateBears" THEN NewBears ELSE {NoArg}

(* createProviderState({store(props) {...}, actions(setState, _getState, props) {...}}) *)
ConfigStore(h, site, props) ==
  CreateStore(h, site, [count |-> Nullish(props, "initialCount", 0)])
ConfigActions(store, props) == [cfg |-> "A", store |-> store, props |-> props]
ConfigHooks(useBoundStore, useActions) == [kind |-> "hooks", id |-> 0]

(* the methods of the actions objects: what actions.method() does to the heap *)
IncrementStep(a) == Nullish(a.props, "incrementBy", 1)
Call(h, a, method, arg) ==
  LET state == h[a.store]
  IN CASE method = "increment" ->
            SetState(h, a.store, [count |-> state.count + IncrementStep(a)])
       [] method = "increaseBears" ->
            SetState(h, a.store, [bears |-> state.bears + 1])
       [] method = "removeAllBears" ->
            SetState(h, a.store, [bears |-> 0])
       [] method = "updateBears" ->
            SetState(h, a.store, [bears |-> arg])
       [] method = "increaseFish" ->
            SetState(h, a.store, [fishes |-> state.fishes + 1])

----------------------------------------------------------------------------
(* useRefMemo(factory, deps) *)

NullRef == [set |-> FALSE, deps |-> Undefined, value |-> 0]

(* useRef(null) of a component instance that was unmounted: the next mount
   is a new instance and starts from null *)
DroppedKept(ref) == ref
Dropped(ref) == NullRef

(* the condition under which useRefMemo calls factory *)
UseRefMemoCallsByReference(ref, deps) ==
  ~ref.set \/ ~(ref.deps.t = "undefined" /\ deps.t = "undefined")
UseRefMemoCalls(ref, deps) == ~ref.set \/ ~shallow(ref.deps, deps)
(* ref.current after the call; `fresh` is what factory() returns if called *)
UseRefMemo(ref, deps, fresh) ==
  IF UseRefMemoCalls(ref, deps)
  THEN [set |-> TRUE, deps |-> deps, value |-> fresh]
  ELSE ref

(* A component instance whose renders call useRefMemo(factory, deps):
   ref is its useRef cell, renders the number of its renders, deps the deps
   of the latest one, factoryCalls the number of times factory was called
   (factory returns a new object each time, named by that number), returned
   what the latest call returned, omitted whether every render omitted deps. *)
NoRenders ==
  [ref |-> NullRef, renders |-> 0, deps |-> Undefined, factoryCalls |-> 0,
   returned |-> 0, omitted |-> TRUE]
DepsValues ==
  {Undefined} \cup {Obj(props) : props \in PropsWithoutChildren}
              \cup {Obj([initialCount |-> 50, incrementBy |-> 1]),
                    Obj([initialCount |-> 50, incrementBy |-> 10])}
RenderWithRefMemo(deps) ==
  /\ memo.renders < MaxRenders
  /\ LET calls == UseRefMemoCalls(memo.ref, deps)
         ref == UseRefMemo(memo.ref, deps, memo.factoryCalls + 1)
     IN memo' = [ref |-> ref,
                 renders |-> memo.renders + 1,
                 deps |-> deps,
                 factoryCalls |-> memo.factoryCalls + (IF calls THEN 1 ELSE 0),
                 returned |-> ref.value,
                 omitted |-> memo.omitted /\ deps = Undefined]
  /\ UNCHANGED <<heap, actionsHeap, globalVars, globalTreeVars, factoryVars, treeVars,
                 factoryB, globalStore, stale, nSet, last>>

----------------------------------------------------------------------------
(* Values *)

NoCalls == << >>
Op(op, at, cs) ==
  [op |-> op, at |-> at, calls |-> cs, arg |-> NoArg, renders |-> {}, src |-> "none"]
Count(cs, fn) == Cardinality({i \in DOMAIN cs : cs[i] = fn})

NoTuple == << >>
NoValue == [kind |-> "none", id |-> 0]
ActionsValue(a) == [kind |-> "actions", id |-> a]
UseActionsHookValue == [kind |-> "useActions", id |-> 0]
StoreProviderValue == [kind |-> "StoreProvider", id |-> 0]
NoGlobalCfg == [store |-> 0, hooks |-> NoValue, actions |-> NoValue]

----------------------------------------------------------------------------
(* The hooks, as the consumers' render calls them *)

(* useContext(ctx) in a component at place c: the value given by the nearest
   enclosing Provider of the context, else the context's default *)
UNINITIALIZED == [init |-> FALSE, id |-> 0]
Provided(id) == [init |-> TRUE, id |-> id]
NearestOutermost(m, c) ==
  LET around == {p \in Ancestors(c) : m[p]}
  IN IF around = {} THEN 0 ELSE CHOOSE p \in around : \A q \in around : p <= q
RECURSIVE Nearest(_, _)
Nearest(m, c) ==
  IF c = 0 THEN 0 ELSE IF m[c] THEN c ELSE Nearest(m, Parent(c))
UseContext(values, m, c) ==
  IF Nearest(m, c) = 0 THEN UNINITIALIZED ELSE Provided(values[Nearest(m, c)].value)

(* config.displayName: undefined or a string *)
NoName == [t |-> "undefined", s |-> ""]
Str(s) == [t |-> "string", s |-> s]
DisplayNames == {NoName, Str(""), Str("CounterProvider")}
(* a || b on an optional string: b if a is undefined or empty *)
OrNullish(a, b) == IF a.t = "undefined" THEN b ELSE a.s
Or(a, b) == IF a.t = "undefined" \/ a.s = "" THEN b ELSE a.s
(* `Missing '${config.displayName || "StoreProvider"}'` *)
Missing(name) == "Missing '" \o Or(name, "StoreProvider") \o "'"

(* JavaScript values that are not objects, as a config.actions may return
   them: undefined, null, false, 0 and "".  An object is its identity, a
   positive number; !value holds for these five only. *)
JsUndefined == 0 - 1
JsNull == 0 - 2
JsFalse == 0 - 3
JsZero == 0 - 4
JsEmptyString == 0 - 5
FalsyValues == {JsUndefined, JsNull, JsFalse, JsZero, JsEmptyString}
Not(value) == value \in FalsyValues

(* const useActions = () => {...} *)
UseActionsIfTruthy(m, ra, c, name) ==
  LET actions == UseContext(ra, m, c)
  IN IF actions = UNINITIALIZED \/ Not(actions.id)
     THEN Throw(Missing(name))
     ELSE Returned(actions.id, EmptyProps)
UseActionsNoGuard(m, ra, c, name) == Returned(UseContext(ra, m, c).id, EmptyProps)
UseActionsOutermost(m, ra, c, name) ==
  LET around == {p \in Ancestors(c) : m[p]}
  IN IF around = {}
     THEN Throw(Missing(name))
     ELSE Returned(ra[CHOOSE p \in around : \A q \in around : p <= q].value, EmptyProps)
UseActions(m, ra, c, name) ==
  LET actions == UseContext(ra, m, c)
  IN IF actions = UNINITIALIZED
     THEN Throw(Missing(name))
     ELSE Returned(actions.id, EmptyProps)

(* const useBoundStore = ((selector) => {...}) of createProviderState *)
UseBoundStoreNoSelector(h, m, rs, c, selector, name) ==
  LET store == UseContext(rs, m, c)
  IN IF store = UNINITIALIZED
     THEN Throw(Missing(name))
     ELSE UseStore(h, store.id, "none")
UseBoundStore(h, m, rs, c, selector, name) ==
  LET store == UseContext(rs, m, c)
  IN IF store = UNINITIALIZED
     THEN Throw(Missing(name))
     ELSE UseStore(h, store.id, selector)

(* const useBoundStore = ((selector) => useStore(store, selector)) of
   createGlobalState; `store` is the constant the closure captured *)
GlobalUseBoundStoreNoSelector(h, store, selector) == UseStore(h, store, "none")
GlobalUseBoundStoreInitial(h, store, selector) ==
  UseStore([i \in DOMAIN h |-> [bears |-> 0, fishes |-> 0]], store, selector)
GlobalUseBoundStore(h, store, selector) == UseStore(h, store, selector)

(* The consumers at place c exist while Provider c is mounted (place 0: as
   soon as the hooks exist). *)
Exists(m, done, c) == done /\ (IF c = 0 THEN TRUE ELSE m[c])
Nothing == Throw("")
Absent == [exists |-> FALSE, count |-> Nothing, whole |-> Nothing, actions |-> Nothing]
Consumers(h, m, rs, ra, done, name) ==
  [c \in Places |->
     IF Exists(m, done, c)
     THEN [exists |-> TRUE,
           count |-> UseBoundStore(h, m, rs, c, "count", name),
           whole |-> UseBoundStore(h, m, rs, c, "none", name),
           actions |-> UseActions(m, ra, c, name)]
     ELSE Absent]
GlobalConsumers(h, done, ret) ==
  [g \in Globals |->
     IF done[g]
     THEN [exists |-> TRUE,
           bears |-> GlobalUseBoundStore(h, ret[g][1].id, "bears"),
           fishes |-> GlobalUseBoundStore(h, ret[g][1].id, "fishes"),
           whole |-> GlobalUseBoundStore(h, ret[g][1].id, "none")]
     ELSE [exists |-> FALSE, bears |-> Nothing, fishes |-> Nothing, whole |-> Nothing]]

(* The components of the global example, <Bears5 /> and <Fishes />, named by
   the part of the state their hook selects: useBears, useFishes. *)
GlobalComponents == {"bears", "fishes"}
NotShown == [c \in GlobalComponents |-> Nothing]
(* one render of the components of call g: each calls its hook *)
GlobalRender(h, ret, g) ==
  [c \in GlobalComponents |-> GlobalUseBoundStore(h, ret[g][1].id, c)]
(* The components that useStore(store, selector) renders again when the state
   goes from h to h1: those whose hook now returns another value. *)
GlobalRerendered(h, h1, ret, g) ==
  {c \in GlobalComponents : GlobalRender(h1, ret, g)[c] # GlobalRender(h, ret, g)[c]}

(* what the consumers' latest render returned, and what the global hooks
   return to a caller now *)
View == Consumers(heap, mounted, refStore, refActions, pDone, pName)
GlobalView == GlobalConsumers(heap, gDone, gRet)

(* The actions objects the closures of the consumers hold: the ones their
   latest render got from useActions, which are the ones the mounted
   Providers provide, and the stale ones. *)
ProvidedActions(m, ra) == {ra[p].value : p \in {q \in Providers : m[q]}}
Current == ProvidedActions(mounted, refActions)
Held == Current \cup stale

(* A second call of createProviderState, B, with the same config; the first
   one is A.  Each call creates its own storeContext and actionsContext, and
   the hooks and the StoreProvider it returns use these.  The application
   renders B's <StoreProvider initialCount={50}> directly inside A's
   StoreProvider at a place that has no place below it, and the consumers at
   every place also call the hooks of B. *)
NoFactoryB ==
  [done |-> FALSE,
   mounted |-> [p \in Providers |-> FALSE],
   refStore |-> [p \in Providers |-> NullRef],
   refActions |-> [p \in Providers |-> NullRef]]
Leaves == {p \in Providers : Descendants(p) = {p}}
SiteB(p) == 5 + p
JsxPropsB == [initialCount |-> 50, children |-> "c1"]
(* const storeContext = createContext(...), const actionsContext =
   createContext(...) in the call of factory f: the contexts it creates *)
ContextShared(f) == "A"
Context(f) == f
(* the Providers of a context that are mounted, and the values they give *)
ContextMounted(ctx) == IF ctx = "A" THEN mounted ELSE factoryB.mounted
ContextStores(ctx) == IF ctx = "A" THEN refStore ELSE factoryB.refStore
ContextActions(ctx) == IF ctx = "A" THEN refActions ELSE factoryB.refActions
(* what the hooks of factory f return in the components at place c *)
ConsumersOf(f) ==
  [c \in Places |->
     IF Exists(mounted, pDone /\ factoryB.done, c)
     THEN [exists |-> TRUE,
           count |-> UseBoundStore(heap, ContextMounted(Context(f)),
                                   ContextStores(Context(f)), c, "count", NoName),
           whole |-> UseBoundStore(heap, ContextMounted(Context(f)),
                                   ContextStores(Context(f)), c, "none", NoName),
           actions |-> UseActions(ContextMounted(Context(f)),
                                  ContextActions(Context(f)), c, NoName)]
     ELSE Absent]

(* createStoreWithActions(getInitialState, getActions), with the counter as
   its configuration: getInitialState(props) is {count: props?.initialCount
   ?? 0} and the actions are those of config.actions. *)
NoGlobalStore == [done |-> FALSE, store |-> 0, actions |-> 0]
DefaultSite == 9
(* const createStoreAndActions = (props) => {...}: the heaps after it and
   the {store, actions} it returns; props is EmptyProps for undefined *)
CreateStoreAndActionsOnce(h, ah, site, props) ==
  IF NewId(EmptyHeap, DefaultSite) \in DOMAIN h
  THEN [heap |-> h, actionsHeap |-> ah,
        store |-> NewId(EmptyHeap, DefaultSite), actions |-> NewId(EmptyHeap, DefaultSite)]
  ELSE [heap |-> ConfigStore(h, site, props),
        actionsHeap |-> Alloc(ah, site, ConfigActions(NewId(h, site), props)),
        store |-> NewId(h, site),
        actions |-> NewId(ah, site)]
CreateStoreAndActions(h, ah, site, props) ==
  [heap |-> ConfigStore(h, site, props),
   actionsHeap |-> Alloc(ah, site, ConfigActions(NewId(h, site), props)),
   store |-> NewId(h, site),
   actions |-> NewId(ah, site)]
(* Object.values(props): the values of the props in the order of the JSX
   attributes, children last; a number and an element are never equal *)
KeyOrder == <<"initialCount", "incrementBy", "children">>
JsValue(props, k) ==
  IF k = "children" THEN [t |-> "element", n |-> 0, s |-> props[k]]
  ELSE [t |-> "number", n |-> props[k], s |-> ""]
RECURSIVE ValuesFrom(_, _)
ValuesFrom(props, i) ==
  IF i > Len(KeyOrder) THEN << >>
  ELSE (IF KeyOrder[i] \in DOMAIN props THEN <<JsValue(props, KeyOrder[i])>> ELSE << >>)
       \o ValuesFrom(props, i + 1)
ObjectValues(props) == ValuesFrom(props, 1)
(* areHookInputsEqual(nextDeps, prevDeps) of React: Object.is on the items
   that both arrays have *)
AreHookInputsEqual(nextDeps, prevDeps) ==
  \A i \in (DOMAIN nextDeps) \cap (DOMAIN prevDeps) : nextDeps[i] = prevDeps[i]
(* the cell of useMemo(factory, deps) in a StoreProvider *)
MemoCell(deps, value) == [set |-> TRUE, deps |-> [t |-> "array", v |-> deps], value |-> value]
UseMemoCalls(cell, deps) == ~cell.set \/ ~AreHookInputsEqual(deps, cell.deps.v)
(* useContext(ctx) of a context created with the default value dflt *)
UseContextDefault(values, m, c, dflt) ==
  IF Nearest(m, c) = 0 THEN Provided(dflt) ELSE Provided(values[Nearest(m, c)].value)
(* useStoreHook(selector) and useActionsHook() in a component at place c *)
UseStoreHook(h, m, rs, c, selector, gs) ==
  UseStore(h, UseContextDefault(rs, m, c, gs.store).id, selector)
UseActionsHook(m, ra, c, gs) ==
  Returned(UseContextDefault(ra, m, c, gs.actions).id, EmptyProps)
ConsumersWithDefault(h, m, rs, ra, gs) ==
  [c \in Places |->
     IF Exists(m, gs.done, c)
     THEN [exists |-> TRUE,
           count |-> UseStoreHook(h, m, rs, c, "count", gs),
           whole |-> UseStoreHook(h, m, rs, c, "none", gs),
           actions |-> UseActionsHook(m, ra, c, gs)]
     ELSE Absent]
ViewWithDefault == ConsumersWithDefault(heap, mounted, refStore, refActions, globalStore)

(* The heaps after a handler left them as h and ah and React rendered the
   consumers again.  A closure (handler, timer) over an actions object that is
   no longer provided is cleaned up, as the effects of the examples do, or, if
   `leak`, kept. *)
Commit(h, ah, leak) ==
  LET cur == ProvidedActions(mounted', refActions')
      st == IF leak THEN stale \cup (Current \ cur) ELSE stale
      liveActions == {refActions'[p].value : p \in {q \in Providers : refActions'[q].set}}
                     \cup {factoryB'.refActions[p].value :
                              p \in {q \in Providers : factoryB'.refActions[q].set}}
                     \cup (IF globalStore'.done THEN {globalStore'.actions} ELSE {})
                     \cup st
                     \cup {gCfg'[g].actions.id : g \in {x \in Globals : gDone'[x]}}
      liveStores == {refStore'[p].value : p \in {q \in Providers : refStore'[q].set}}
                    \cup {factoryB'.refStore[p].value :
                             p \in {q \in Providers : factoryB'.refStore[q].set}}
                    \cup (IF globalStore'.done THEN {globalStore'.store} ELSE {})
                    \cup {ah[a].store : a \in liveActions \cap DOMAIN ah}
  IN /\ Cardinality(st) <= MaxStale
     /\ stale' = st
     /\ heap' = Restrict(h, liveStores)
     /\ actionsHeap' = Restrict(ah, liveActions)

Init ==
  /\ heap = EmptyHeap
  /\ actionsHeap = EmptyHeap
  /\ gDone = [g \in Globals |-> FALSE]
  /\ gRet = [g \in Globals |-> NoTuple]
  /\ gCfg = [g \in Globals |-> NoGlobalCfg]
  /\ gMounted = [g \in Globals |-> FALSE]
  /\ gShown = [g \in Globals |-> NotShown]
  /\ pDone = FALSE
  /\ pRet = NoTuple
  /\ pCfg = NoValue
  /\ pName = NoName
  /\ mounted = [p \in Providers |-> FALSE]
  /\ refStore = [p \in Providers |-> NullRef]
  /\ refActions = [p \in Providers |-> NullRef]
  /\ jsx = [p \in Providers |-> EmptyProps]
  /\ stale = {}
  /\ nSet = 0
  /\ memo = NoRenders
  /\ factoryB = NoFactoryB
  /\ globalStore = NoGlobalStore
  /\ last = Op("init", 0, NoCalls)

----------------------------------------------------------------------------
(* createGlobalState(config) *)

GlobalReturnSwapped(hooks, actions) == <<actions, hooks>>
GlobalReturn(hooks, actions) == <<hooks, actions>>

(* the store the closure useBoundStore captures *)
GlobalHookStoreShared(store) == NewId(EmptyHeap, GlobalSite(1))
GlobalHookStore(store) == store
(* the config functions createGlobalState calls, in order *)
GlobalCallsHooksFirst == <<"hooks", "store", "actions">>
GlobalCalls == <<"store", "actions", "hooks">>

CreateGlobalState(g) ==
  /\ ~gDone[g]
  /\ LET site == GlobalSite(g)
         heap1 == GlobalConfigStore(heap, site)
         store == NewId(heap, site)
         actionsHeap1 == Alloc(actionsHeap, site, GlobalConfigActions(store))
         actions == ActionsValue(NewId(actionsHeap, site))
         useBoundStore == [store |-> GlobalHookStore(store)]
         hooks == GlobalConfigHooks(useBoundStore)
     IN /\ gDone' = [gDone EXCEPT ![g] = TRUE]
        /\ gCfg' = [gCfg EXCEPT ![g] = [store |-> store, hooks |-> hooks, actions |-> actions]]
        /\ gRet' = [gRet EXCEPT ![g] = GlobalReturn(hooks, actions)]
        /\ last' = Op("createGlobalState", g, GlobalCalls)
        /\ UNCHANGED <<memo, globalStore, factoryB, globalTreeVars, factoryVars, treeVars, nSet>>
        /\ Commit(heap1, actionsHeap1, FALSE)

(* any code calls a static action: bearsActions.increaseBears() *)
GlobalInvoke(g, method, arg) ==
  /\ gDone[g]
  /\ nSet < MaxSets
  /\ nSet' = nSet + 1
  /\ UNCHANGED <<memo, globalStore, factoryB, globalVars, gMounted, factoryVars, treeVars>>
  /\ LET heap1 == Call(heap, actionsHeap[gRet[g][2].id], method, arg)
         renders == IF gMounted[g] THEN GlobalRerendered(heap, heap1, gRet, g) ELSE {}
     IN /\ gShown' = [gShown EXCEPT ![g] =
                        [c \in GlobalComponents |->
                           IF c \in renders THEN GlobalRender(heap1, gRet, g)[c] ELSE @[c]]]
        /\ last' = [Op(method, g, NoCalls) EXCEPT !.arg = arg, !.renders = renders]
        /\ Commit(heap1, actionsHeap, FALSE)

(* React mounts the components that use the hooks of call g *)
GlobalMount(g) ==
  /\ gDone[g]
  /\ ~gMounted[g]
  /\ gMounted' = [gMounted EXCEPT ![g] = TRUE]
  /\ gShown' = [gShown EXCEPT ![g] = GlobalRender(heap, gRet, g)]
  /\ last' = [Op("globalMount", g, NoCalls) EXCEPT !.renders = GlobalComponents]
  /\ UNCHANGED <<memo, globalStore, factoryB, globalVars, factoryVars, treeVars, nSet>>
  /\ Commit(heap, actionsHeap, FALSE)

(* React unmounts them *)
GlobalUnmount(g) ==
  /\ gMounted[g]
  /\ gMounted' = [gMounted EXCEPT ![g] = FALSE]
  /\ gShown' = [gShown EXCEPT ![g] = NotShown]
  /\ last' = Op("globalUnmount", g, NoCalls)
  /\ UNCHANGED <<memo, globalStore, factoryB, globalVars, factoryVars, treeVars, nSet>>
  /\ Commit(heap, actionsHeap, FALSE)

----------------------------------------------------------------------------
(* createProviderState(config) *)

ProviderReturn(hooks, useActions, provider) == <<hooks, useActions, provider>>
(* the config functions createProviderState calls *)
ProviderCalls == <<"hooks">>

CreateProviderState(displayName) ==
  /\ ~pDone
  /\ pName' = displayName
  /\ LET hooks == ConfigHooks([store |-> 0], UseActionsHookValue)
     IN /\ pCfg' = hooks
        /\ pRet' = ProviderReturn(hooks, UseActionsHookValue, StoreProviderValue)
        /\ last' = Op("createProviderState", 0, ProviderCalls)
  /\ pDone' = TRUE
  /\ UNCHANGED <<memo, globalStore, factoryB, globalVars, globalTreeVars, treeVars, nSet>>
  /\ Commit(heap, actionsHeap, FALSE)

(* the second call, createProviderState(config), B *)
CreateProviderStateB ==
  /\ ~factoryB.done
  /\ factoryB' = [factoryB EXCEPT !.done = TRUE]
  /\ last' = Op("createProviderStateB", 0, ProviderCalls)
  /\ UNCHANGED <<memo, globalStore, globalVars, globalTreeVars, factoryVars, treeVars, nSet>>
  /\ Commit(heap, actionsHeap, FALSE)

(* ({ children, ..._props }) => ... *)
RestKeepChildren(inProps) == inProps
Rest(inProps) == [k \in DOMAIN inProps \ {"children"} |-> inProps[k]]

(* deps of useRefMemo(() => config.store(props)): omitted *)
StoreDepsProps(props) == Obj(props)
StoreDeps(props) == Undefined
(* deps of useRefMemo(() => config.actions(...), props) *)
ActionsDepsNone(props) == Undefined
ActionsDeps(props) == Obj(props)
(* the props argument of config.store(props) and config.actions(.., props) *)
StoreArgNone(props) == EmptyProps
StoreArg(props) == props
ActionsArg(props) == props
(* the store whose setState and getState config.actions gets; h is the heap
   after useRefMemo(() => config.store(props)) *)
ActionsStoreFirst(h, store) == CHOOSE s \in DOMAIN h : \A t \in DOMAIN h : s <= t
ActionsStore(h, store) == store

(* One render of the StoreProvider at place p with the JSX props inProps,
   and of the consumers below it. *)
StoreProvider(op, p, inProps, leak) ==
  LET props == Rest(inProps)
      mkStore == UseRefMemoCalls(refStore[p], StoreDeps(props))
      heap1 == IF mkStore THEN ConfigStore(heap, p, StoreArg(props)) ELSE heap
      rs == UseRefMemo(refStore[p], StoreDeps(props), NewId(heap, p))
      store == rs.value
      mkActions == UseRefMemoCalls(refActions[p], ActionsDeps(props))
      actionsHeap1 == IF mkActions
                      THEN Alloc(actionsHeap, p,
                                 ConfigActions(ActionsStore(heap1, store), ActionsArg(props)))
                      ELSE actionsHeap
      ra == UseRefMemo(refActions[p], ActionsDeps(props), NewId(actionsHeap, p))
      cs == (IF mkStore THEN <<"store">> ELSE << >>)
            \o (IF mkActions THEN <<"actions">> ELSE << >>)
  IN /\ refStore' = [refStore EXCEPT ![p] = rs]
     /\ refActions' = [refActions EXCEPT ![p] = ra]
     /\ jsx' = [jsx EXCEPT ![p] = inProps]
     /\ mounted' = [mounted EXCEPT ![p] = TRUE]
     /\ last' = Op(op, p, cs)
     /\ UNCHANGED <<memo, globalStore, factoryB, globalVars, globalTreeVars, factoryVars, nSet>>
     /\ Commit(heap1, actionsHeap1, leak)

(* One render of the StoreProvider at place p of a factory whose
   config.actions returns the value `returned`, which is not an object. *)
StoreProviderReturning(op, p, inProps, returned) ==
  LET props == Rest(inProps)
      mkStore == UseRefMemoCalls(refStore[p], StoreDeps(props))
      heap1 == IF mkStore THEN ConfigStore(heap, p, StoreArg(props)) ELSE heap
      rs == UseRefMemo(refStore[p], StoreDeps(props), NewId(heap, p))
      mkActions == UseRefMemoCalls(refActions[p], ActionsDeps(props))
      ra == UseRefMemo(refActions[p], ActionsDeps(props), returned)
      cs == (IF mkStore THEN <<"store">> ELSE << >>)
            \o (IF mkActions THEN <<"actions">> ELSE << >>)
  IN /\ refStore' = [refStore EXCEPT ![p] = rs]
     /\ refActions' = [refActions EXCEPT ![p] = ra]
     /\ jsx' = [jsx EXCEPT ![p] = inProps]
     /\ mounted' = [mounted EXCEPT ![p] = TRUE]
     /\ last' = Op(op, p, cs)
     /\ UNCHANGED <<memo, globalStore, factoryB, globalVars, globalTreeVars, factoryVars, nSet>>
     /\ Commit(heap1, actionsHeap, FALSE)

MountReturning(p, inProps, returned) ==
  /\ pDone
  /\ ~mounted[p]
  /\ (IF Parent(p) = 0 THEN TRUE ELSE mounted[Parent(p)])
  /\ StoreProviderReturning("mount", p, inProps, returned)

RerenderReturning(p, inProps, returned) ==
  /\ mounted[p]
  /\ StoreProviderReturning("rerender", p, inProps, returned)

(* createLocalStore(config) of zustand-actions-2: the same contexts, hooks
   and return value as createProviderState *)
CreateLocalStore ==
  /\ ~pDone
  /\ pName' = NoName
  /\ LET hooks == ConfigHooks([store |-> 0], UseActionsHookValue)
     IN /\ pCfg' = hooks
        /\ pRet' = ProviderReturn(hooks, UseActionsHookValue, StoreProviderValue)
        /\ last' = Op("createLocalStore", 0, ProviderCalls)
  /\ pDone' = TRUE
  /\ UNCHANGED <<memo, globalStore, factoryB, globalVars, globalTreeVars, treeVars, nSet>>
  /\ Commit(heap, actionsHeap, FALSE)

(* One render of the StoreProvider of createLocalStore at place p: it calls
   config.store(props) and config.actions(.., props) with the props as they
   are and gives the results to the context Providers.  It has no hook of its
   own, so refStore[p] and refActions[p] hold what this render provided. *)
LocalProvided(value) == [set |-> TRUE, deps |-> Undefined, value |-> value]
LocalStoreProvider(op, p, inProps) ==
  LET heap1 == ConfigStore(heap, p, inProps)
      store == NewId(heap, p)
      actionsHeap1 == Alloc(actionsHeap, p, ConfigActions(store, inProps))
      actions == NewId(actionsHeap, p)
  IN /\ refStore' = [refStore EXCEPT ![p] = LocalProvided(store)]
     /\ refActions' = [refActions EXCEPT ![p] = LocalProvided(actions)]
     /\ jsx' = [jsx EXCEPT ![p] = inProps]
     /\ mounted' = [mounted EXCEPT ![p] = TRUE]
     /\ last' = Op(op, p, <<"store", "actions">>)
     /\ UNCHANGED <<memo, globalStore, factoryB, globalVars, globalTreeVars, factoryVars, nSet>>
     /\ Commit(heap1, actionsHeap1, FALSE)

LocalMount(p, inProps) ==
  /\ pDone
  /\ ~mounted[p]
  /\ (IF Parent(p) = 0 THEN TRUE ELSE mounted[Parent(p)])
  /\ LocalStoreProvider("mount", p, inProps)

LocalRerender(p, inProps) ==
  /\ mounted[p]
  /\ LocalStoreProvider("rerender", p, inProps)

(* createStoreWithActions(getInitialState, getActions): it creates the
   global store with props undefined *)
CreateStoreWithActions ==
  /\ ~globalStore.done
  /\ LET r == CreateStoreAndActions(heap, actionsHeap, DefaultSite, EmptyProps)
     IN /\ globalStore' = [done |-> TRUE, store |-> r.store, actions |-> r.actions]
        /\ last' = Op("createStoreWithActions", 0, <<"store", "actions">>)
        /\ UNCHANGED <<memo, factoryB, globalVars, globalTreeVars, factoryVars, treeVars, nSet>>
        /\ Commit(r.heap, r.actionsHeap, FALSE)

(* One render of the StoreProvider of createStoreWithActions at place p:
   useMemo(() => createStoreAndActions(props), Object.values(props)); the one
   cell holds the pair, refStore[p] its store and refActions[p] its actions *)
MemoStoreProvider(op, p, inProps) ==
  LET deps == ObjectValues(inProps)
      calls == UseMemoCalls(refStore[p], deps)
      r == CreateStoreAndActions(heap, actionsHeap, p, inProps)
  IN /\ refStore' = [refStore EXCEPT ![p] = IF calls THEN MemoCell(deps, r.store) ELSE @]
     /\ refActions' = [refActions EXCEPT ![p] = IF calls THEN MemoCell(deps, r.actions) ELSE @]
     /\ jsx' = [jsx EXCEPT ![p] = inProps]
     /\ mounted' = [mounted EXCEPT ![p] = TRUE]
     /\ last' = Op(op, p, IF calls THEN <<"store", "actions">> ELSE NoCalls)
     /\ UNCHANGED <<memo, globalStore, factoryB, globalVars, globalTreeVars, factoryVars, nSet>>
     /\ IF calls THEN Commit(r.heap, r.actionsHeap, FALSE)
                 ELSE Commit(heap, actionsHeap, FALSE)

MemoMount(p, inProps) ==
  /\ globalStore.done
  /\ ~mounted[p]
  /\ (IF Parent(p) = 0 THEN TRUE ELSE mounted[Parent(p)])
  /\ MemoStoreProvider("mount", p, inProps)

MemoRerender(p, inProps) ==
  /\ mounted[p]
  /\ MemoStoreProvider("rerender", p, inProps)

(* a handler of a component outside every StoreProvider calls increment() of
   the actions that useActionsHook() returned there *)
InvokeDefault ==
  /\ globalStore.done
  /\ nSet < MaxSets
  /\ nSet' = nSet + 1
  /\ last' = Op("incrementDefault", globalStore.actions, NoCalls)
  /\ UNCHANGED <<memo, globalStore, factoryB, globalVars, globalTreeVars, factoryVars, treeVars>>
  /\ Commit(Call(heap, actionsHeap[globalStore.actions], "increment", NoArg),
            actionsHeap, FALSE)

(* React mounts a <StoreProvider {...inProps}> at place p: fresh hooks state *)
Mount(p, inProps) ==
  /\ pDone
  /\ ~mounted[p]
  /\ (IF Parent(p) = 0 THEN TRUE ELSE mounted[Parent(p)])
  /\ StoreProvider("mount", p, inProps, FALSE)

(* React renders the mounted StoreProvider at p again *)
Rerender(p, inProps, leak) ==
  /\ mounted[p]
  /\ StoreProvider("rerender", p, inProps, leak)

(* React unmounts the StoreProvider at p with its subtree: the hooks state of
   every component instance in it is dropped, that of B's StoreProviders
   included *)
Unmount(p, leak) ==
  /\ mounted[p]
  /\ mounted' = [q \in Providers |-> mounted[q] /\ q \notin Descendants(p)]
  /\ refStore' = [q \in Providers |->
                    IF q \in Descendants(p) THEN Dropped(refStore[q]) ELSE refStore[q]]
  /\ refActions' = [q \in Providers |->
                      IF q \in Descendants(p) THEN Dropped(refActions[q]) ELSE refActions[q]]
  /\ jsx' = [q \in Providers |-> IF q \in Descendants(p) THEN EmptyProps ELSE jsx[q]]
  /\ factoryB' = [factoryB EXCEPT
                    !.mounted = [q \in Providers |-> @[q] /\ q \notin Descendants(p)],
                    !.refStore = [q \in Providers |->
                                    IF q \in Descendants(p) THEN Dropped(@[q]) ELSE @[q]],
                    !.refActions = [q \in Providers |->
                                      IF q \in Descendants(p) THEN Dropped(@[q]) ELSE @[q]]]
  /\ last' = Op("unmount", p, NoCalls)
  /\ UNCHANGED <<memo, globalStore, globalVars, globalTreeVars, factoryVars, nSet>>
  /\ Commit(heap, actionsHeap, leak)

(* React mounts B's <StoreProvider {...inProps}> inside A's at the leaf p:
   one render of B's StoreProvider with fresh hooks state *)
MountB(p, inProps) ==
  /\ factoryB.done
  /\ mounted[p]
  /\ ~factoryB.mounted[p]
  /\ LET props == Rest(inProps)
         heap1 == ConfigStore(heap, SiteB(p), StoreArg(props))
         rs == UseRefMemo(NullRef, StoreDeps(props), NewId(heap, SiteB(p)))
         actionsHeap1 == Alloc(actionsHeap, SiteB(p),
                               ConfigActions(ActionsStore(heap1, rs.value), ActionsArg(props)))
         ra == UseRefMemo(NullRef, ActionsDeps(props), NewId(actionsHeap, SiteB(p)))
     IN /\ factoryB' = [factoryB EXCEPT !.mounted[p] = TRUE,
                                        !.refStore[p] = rs,
                                        !.refActions[p] = ra]
        /\ last' = Op("mountB", p, <<"store", "actions">>)
        /\ UNCHANGED <<memo, globalStore, globalVars, globalTreeVars, factoryVars, treeVars, nSet>>
        /\ Commit(heap1, actionsHeap1, FALSE)

(* React unmounts B's StoreProvider at p *)
UnmountB(p) ==
  /\ factoryB.mounted[p]
  /\ factoryB' = [factoryB EXCEPT !.mounted[p] = FALSE,
                                 !.refStore[p] = Dropped(@),
                                 !.refActions[p] = Dropped(@)]
  /\ last' = Op("unmountB", p, NoCalls)
  /\ UNCHANGED <<memo, globalStore, globalVars, globalTreeVars, factoryVars, treeVars, nSet>>
  /\ Commit(heap, actionsHeap, FALSE)

(* a handler below B's StoreProvider calls increment() of the actions that
   B's useActions returned *)
InvokeB(a) ==
  /\ a \in ProvidedActions(factoryB.mounted, factoryB.refActions)
  /\ nSet < MaxSets
  /\ nSet' = nSet + 1
  /\ last' = Op("incrementB", a, NoCalls)
  /\ UNCHANGED <<memo, globalStore, factoryB, globalVars, globalTreeVars, factoryVars, treeVars>>
  /\ Commit(Call(heap, actionsHeap[a], "increment", NoArg), actionsHeap, FALSE)

(* One call of an accessor in the render of a component at place c:
   useActions() or the store hook with or without a selector.  The call
   reads a context and returns or throws; `heap` is the heap it leaves and
   `calls` the config functions it called. *)
Accessors == {"useActions", "useBoundStore", "useCount"}
AccessorCreatingStore(h, m, rs, ra, c, hook, name) ==
  LET result == IF hook = "useActions" THEN UseActions(m, ra, c, name)
                ELSE UseBoundStore(h, m, rs, c,
                                   IF hook = "useCount" THEN "count" ELSE "none", name)
  IN [result |-> result,
      heap |-> IF result.threw THEN ConfigStore(h, 0, EmptyProps) ELSE h,
      calls |-> IF result.threw THEN <<"store">> ELSE NoCalls]
Accessor(h, m, rs, ra, c, hook, name) ==
  [result |-> IF hook = "useActions" THEN UseActions(m, ra, c, name)
              ELSE UseBoundStore(h, m, rs, c,
                                 IF hook = "useCount" THEN "count" ELSE "none", name),
   heap |-> h,
   calls |-> NoCalls]
Access(c, hook) ==
  /\ Exists(mounted, pDone, c)
  /\ LET r == Accessor(heap, mounted, refStore, refActions, c, hook, pName)
     IN /\ last' = [Op(hook, c, r.calls) EXCEPT
                      !.src = IF r.result.threw THEN "throw" ELSE "return"]
        /\ UNCHANGED <<memo, globalStore, factoryB, globalVars, globalTreeVars, factoryVars, treeVars, nSet>>
        /\ Commit(r.heap, actionsHeap, FALSE)

(* the event sources that call countActions.increment(): the onClick handler
   of IncrementButton and the interval of useIncrementingTimer *)
Sources == {"click", "timer"}

(* a handler or timer calls counterActions.increment() on an actions object
   it got from useActions, in the latest render or in an earlier one *)
Invoke(src, a) ==
  /\ a \in Held
  /\ nSet < MaxSets
  /\ nSet' = nSet + 1
  /\ last' = [Op("increment", a, NoCalls) EXCEPT !.src = src]
  /\ UNCHANGED <<memo, globalStore, factoryB, globalVars, globalTreeVars, factoryVars, treeVars>>
  /\ Commit(Call(heap, actionsHeap[a], "increment", NoArg), actionsHeap, FALSE)

----------------------------------------------------------------------------
(* Specifications *)

(* the Provider-based state, with consumers that clean up after themselves *)
Next ==
  \/ CreateProviderState(NoName)
  \/ \E p \in Providers : \E inProps \in JsxPropsAt(p) : Mount(p, inProps)
  \/ \E p \in Providers : \E inProps \in JsxPropsAt(p) : Rerender(p, inProps, FALSE)
  \/ \E p \in Providers : Unmount(p, FALSE)
  \/ \E src \in Sources : \E a \in Held : Invoke(src, a)

Spec == Init /\ [][Next]_vars

(* the Provider-based state of a factory called with any displayName, and
   the renders of its Providers and consumers *)
NextDisplayName ==
  \/ \E displayName \in DisplayNames : CreateProviderState(displayName)
  \/ \E p \in Providers : \E inProps \in JsxPropsAt(p) : Mount(p, inProps)
  \/ \E p \in Providers : \E inProps \in JsxPropsAt(p) : Rerender(p, inProps, FALSE)
  \/ \E p \in Providers : Unmount(p, FALSE)

SpecDisplayName == Init /\ [][NextDisplayName]_vars

(* Providers that are mounted once, stay mounted and keep their props
   (re-renders change at most `children`), with the click handlers and the
   timers under them calling increment in any order *)
NextCounter ==
  \/ CreateProviderState(NoName)
  \/ \E p \in Providers : \E inProps \in JsxPropsAt(p) : Mount(p, inProps)
  \/ \E p \in Providers : \E inProps \in JsxPropsAt(p) :
       Rest(inProps) = Rest(jsx[p]) /\ Rerender(p, inProps, FALSE)
  \/ \E src \in Sources : \E a \in Held : Invoke(src, a)

SpecCounter == Init /\ [][NextCounter]_vars

(* both factories, with the actions of both called in any order *)
NextHooks ==
  \/ \E g \in Globals : CreateGlobalState(g)
  \/ \E g \in Globals, method \in GlobalMethods :
       \E arg \in MethodArgs(method) : GlobalInvoke(g, method, arg)
  \/ CreateProviderState(NoName)
  \/ \E p \in Providers : \E inProps \in JsxPropsAt(p) : Mount(p, inProps)
  \/ \E src \in Sources : \E a \in Held : Invoke(src, a)

SpecHooks == Init /\ [][NextHooks]_vars

(* two createProviderState calls and two createGlobalState calls with the
   same configs, their Providers and their actions *)
NextFactories ==
  \/ \E g \in Globals : CreateGlobalState(g)
  \/ \E g \in Globals, method \in GlobalMethods :
       \E arg \in MethodArgs(method) : GlobalInvoke(g, method, arg)
  \/ CreateProviderState(NoName)
  \/ CreateProviderStateB
  \/ \E p \in Providers : Mount(p, [children |-> "c1"])
  \/ \E p \in Leaves : MountB(p, JsxPropsB)
  \/ \E p \in Leaves : UnmountB(p)
  \/ \E p \in Providers : Unmount(p, FALSE)
  \/ \E src \in Sources : \E a \in Held : Invoke(src, a)
  \/ \E a \in DOMAIN actionsHeap : InvokeB(a)

SpecFactories == Init /\ [][NextFactories]_vars

(* the Provider-based state and the accessor calls of the components *)
NextAccess ==
  \/ CreateProviderState(NoName)
  \/ \E p \in Providers : \E inProps \in JsxPropsAt(p) : Mount(p, inProps)
  \/ \E p \in Providers : Unmount(p, FALSE)
  \/ \E src \in Sources : \E a \in Held : Invoke(src, a)
  \/ \E c \in Places, hook \in Accessors : Access(c, hook)

SpecAccess == Init /\ [][NextAccess]_vars

(* a factory whose config.actions returns values that are not objects *)
NextFalsy ==
  \/ CreateProviderState(NoName)
  \/ \E p \in Providers, returned \in FalsyValues :
       \E inProps \in JsxPropsAt(3) : MountReturning(p, inProps, returned)
  \/ \E p \in Providers, returned \in FalsyValues :
       \E inProps \in JsxPropsAt(3) : RerenderReturning(p, inProps, returned)
  \/ \E p \in Providers : Unmount(p, FALSE)
  \/ \E c \in Places : Access(c, "useActions")

SpecFalsy == Init /\ [][NextFalsy]_vars

(* the Provider-based state with timers that are not cleared when their
   component unmounts: they keep the actions object they closed over *)
NextStale ==
  \/ CreateProviderState(NoName)
  \/ \E p \in Providers : \E inProps \in JsxPropsAt(2) \cup {[children |-> "c1"]} :
       Mount(p, inProps)
  \/ \E p \in Providers, leak \in BOOLEAN : Unmount(p, leak)
  \/ \E src \in Sources : \E a \in Held : Invoke(src, a)

SpecStale == Init /\ [][NextStale]_vars

(* the StoreProviders of createLocalStore and the actions of their consumers *)
NextLocal ==
  \/ CreateLocalStore
  \/ \E p \in Providers : \E inProps \in JsxPropsAt(p) : LocalMount(p, inProps)
  \/ \E p \in Providers : \E inProps \in JsxPropsAt(p) : LocalRerender(p, inProps)
  \/ \E p \in Providers : Unmount(p, FALSE)
  \/ \E src \in Sources : \E a \in Held : Invoke(src, a)

SpecLocal == Init /\ [][NextLocal]_vars

(* createStoreWithActions, its StoreProviders and the actions of the
   components inside and outside them *)
NextWithActions ==
  \/ CreateStoreWithActions
  \/ \E p \in Providers : \E inProps \in JsxPropsAt(p) : MemoMount(p, inProps)
  \/ \E p \in Providers : \E inProps \in JsxPropsAt(p) : MemoRerender(p, inProps)
  \/ \E p \in Providers : Unmount(p, FALSE)
  \/ \E src \in Sources : \E a \in Held : Invoke(src, a)
  \/ InvokeDefault

SpecWithActions == Init /\ [][NextWithActions]_vars

(* the renders of a component instance that calls useRefMemo with any deps *)
NextRefMemo == \E deps \in DepsValues : RenderWithRefMemo(deps)

SpecRefMemo == Init /\ [][NextRefMemo]_vars

(* the factories and the global state *)
NextGlobal ==
  \/ \E g \in Globals : CreateGlobalState(g)
  \/ \E g \in Globals, method \in GlobalMethods :
       \E arg \in MethodArgs(method) : GlobalInvoke(g, method, arg)
  \/ \E g \in Globals : GlobalMount(g)
  \/ \E g \in Globals : GlobalUnmount(g)
  \/ CreateProviderState(NoName)

SpecGlobal == Init /\ [][NextGlobal]_vars

----------------------------------------------------------------------------
(* C1: createGlobalState calls config.store exactly once per factory call,
   the returned hooks read and the returned actions write the store that
   call created, whatever is invoked afterwards and in whatever order, and
   the store of a factory call is never replaced. *)
C1_StepOf(g) ==
  /\ gDone'[g] =>
       /\ gRet'[g][1].id = gCfg'[g].store
       /\ actionsHeap'[gRet'[g][2].id].store = gCfg'[g].store
       /\ gCfg'[g].store \in DOMAIN heap'
       /\ GlobalView'[g].bears = Returned(heap'[gCfg'[g].store].bears, EmptyProps)
       /\ GlobalView'[g].fishes = Returned(heap'[gCfg'[g].store].fishes, EmptyProps)
  /\ (~gDone[g] /\ gDone'[g]) =>
       /\ last'.op = "createGlobalState" /\ last'.at = g
       /\ Count(last'.calls, "store") = 1
  /\ gDone[g] =>
       /\ gDone'[g]
       /\ gCfg'[g] = gCfg[g]
       /\ gRet'[g] = gRet[g]
       /\ ~(last'.at = g /\ "store" \in {last'.calls[i] : i \in DOMAIN last'.calls})
       /\ (last'.op \in GlobalMethods /\ last'.at # g) =>
            heap'[gCfg[g].store] = heap[gCfg[g].store]
       /\ (last'.op \in GlobalMethods /\ last'.at = g) =>
            heap'[gCfg[g].store] = Call(heap, actionsHeap[gRet[g][2].id], last'.op, last'.arg)[gCfg[g].store]
C1_GlobalStoreOnce == [][\A g \in Globals : C1_StepOf(g)]_vars
C1_Witness ==
  /\ gDone[1] /\ gDone[2]
  /\ nSet = 2
  /\ heap[gCfg[1].store].bears = 1
  /\ heap[gCfg[2].store].fishes = 1

----------------------------------------------------------------------------
(* C2: a hook or useActions called by a component with no enclosing
   StoreProvider of the factory throws; called by a component inside a
   mounted StoreProvider it returns the state of that Provider's store (the
   selected part or the whole) or that Provider's actions object; no call
   returns the UNINITIALIZED default of the contexts. *)
C2_AccessorsGuarded ==
  \A c \in Places :
    View[c].exists =>
      IF \A p \in Ancestors(c) : ~mounted[p]
      THEN /\ View[c].actions.threw
           /\ View[c].count.threw
           /\ View[c].whole.threw
      ELSE /\ ~View[c].actions.threw
           /\ View[c].actions.num # UNINITIALIZED.id
           /\ View[c].actions.num = refActions[c].value
           /\ View[c].actions.num \in DOMAIN actionsHeap
           /\ refStore[c].value \in DOMAIN heap
           /\ View[c].count = Returned(heap[refStore[c].value].count, EmptyProps)
           /\ View[c].whole = Returned(0, heap[refStore[c].value])
C2_Witness ==
  /\ mounted[1] /\ ~mounted[2]
  /\ View[0].exists /\ View[0].actions.threw /\ View[0].count.threw
  /\ View[1].count = Returned(51, EmptyProps)
  /\ View[1].whole = Returned(0, [count |-> 51])
  /\ View[1].actions.num \in DOMAIN actionsHeap

(* the Provider at p was rendered again in the step *)
RerenderedAt(p) == mounted[p] /\ last'.op = "rerender" /\ last'.at = p
CalledIn(fn) == fn \in {last'.calls[i] : i \in DOMAIN last'.calls}
PropsChanged(p) == ~shallow(Obj(Rest(jsx[p])), Obj(Rest(jsx'[p])))

(* C3, as stated: a re-render of a mounted Provider replaces the store with
   a new one built by config.store exactly if the props of the two renders
   are not shallow-equal. *)
C3_Original ==
  [][\A p \in Providers :
       RerenderedAt(p) =>
         (CalledIn("store") <=> PropsChanged(p))]_vars

(* C3, amended: a re-render of a mounted Provider never replaces the store.
   With shallow-equal props it keeps the store and the actions object; with
   props that are not shallow-equal it keeps the store, with its state, and
   replaces only the actions object, by one built by config.actions from the
   new props around the same store. *)
C3_StoreKeptActionsReplaced ==
  [][\A p \in Providers :
       RerenderedAt(p) =>
         /\ ~CalledIn("store")
         /\ refStore'[p].value = refStore[p].value
         /\ heap'[refStore'[p].value] = heap[refStore[p].value]
         /\ IF PropsChanged(p)
            THEN /\ CalledIn("actions")
                 /\ refActions'[p].value # refActions[p].value
                 /\ actionsHeap'[refActions'[p].value]
                      = ConfigActions(refStore[p].value, Rest(jsx'[p]))
            ELSE /\ ~CalledIn("actions")
                 /\ refActions'[p] = refActions[p]]_vars
C3_Witness ==
  /\ last = Op("rerender", 1, <<"actions">>)
  /\ jsx[1] = [incrementBy |-> 10, children |-> "c2"]
  /\ heap[refStore[1].value].count = 2

(* C4: while a Provider stays mounted its store is created only once: no
   render of it after the first calls config.store, whether its props are
   unchanged or changed, and no state update does; the store its descendants
   get from the context stays the same one, and a re-render leaves the state
   that earlier actions accumulated as it was. *)
C4_StoreCreatedOnce ==
  [][\A p \in Providers :
       (mounted[p] /\ mounted'[p]) =>
         /\ last'.at = p => ~CalledIn("store")
         /\ refStore'[p] = refStore[p]
         /\ UseContext(refStore', mounted', p) = UseContext(refStore, mounted, p)
         /\ refStore[p].value \in DOMAIN heap'
         /\ last'.op # "increment" => heap'[refStore[p].value] = heap[refStore[p].value]
         /\ View'[p].whole.obj = heap'[refStore[p].value]]_vars
C4_Witness ==
  /\ last.op = "rerender" /\ last.at = 1
  /\ jsx[1] = [initialCount |-> 50, children |-> "c1"]
  /\ View[1].count = Returned(1, EmptyProps)

(* C5: unmounting a Provider destroys its state, and that of the Providers
   nested in it: nothing mounted refers to their stores any more.  Mounting a
   Provider at a place calls config.store, once, and the descendants read
   the initial state computed from the props of this mount, whatever the
   store of an earlier mount at the place held. *)
C5_RemountReinitializes ==
  [][\A p \in Providers :
       /\ (mounted[p] /\ ~mounted'[p]) =>
            /\ last'.op = "unmount"
            /\ refStore[p].value \notin DOMAIN heap'
            /\ View'[p] = Absent
       /\ (~mounted[p] /\ mounted'[p]) =>
            /\ last'.op = "mount" /\ last'.at = p
            /\ Count(last'.calls, "store") = 1
            /\ View'[p].whole
                 = Returned(0, [count |-> Nullish(Rest(jsx'[p]), "initialCount", 0)])]_vars
C5_Witness ==
  /\ last.op = "mount" /\ last.at = 1
  /\ ~mounted[2] /\ ~mounted[3]
  /\ nSet = 2
  /\ View[1].count = Returned(0, EmptyProps)

(* C6: Providers of one factory that are mounted at the same time hold
   separate state: when an actions object that the consumers under Provider p
   got from useActions is invoked, the store of p takes the update, and the
   store of every other mounted Provider and what the hooks under it return
   are unchanged. *)
C6_SeparateState ==
  [][\A p \in Providers :
       (mounted[p] /\ last'.op = "increment" /\ View[p].actions.num = last'.at) =>
         /\ heap'[refStore[p].value]
              = [count |-> heap[refStore[p].value].count
                            + Nullish(Rest(jsx[p]), "incrementBy", 1)]
         /\ View'[p].count.num = heap'[refStore[p].value].count
         /\ \A q \in Providers \ {p} :
              mounted[q] =>
                /\ refStore[q].value # refStore[p].value
                /\ heap'[refStore[q].value] = heap[refStore[q].value]
                /\ View'[q].count = View[q].count
                /\ View'[q].whole = View[q].whole]_vars
C6_Witness ==
  /\ mounted[1] /\ mounted[2] /\ mounted[3]
  /\ last.op = "increment" /\ last.at = View[3].actions.num
  /\ View[3].count = Returned(10, EmptyProps)
  /\ View[1].count = Returned(50, EmptyProps)
  /\ View[2].count = Returned(51, EmptyProps)

(* C7, as stated: for as long as a Provider stays mounted, useActions under
   it returns the same actions object on every render, across every state
   update and every re-render of the Provider. *)
C7_ActionsStatic ==
  [][\A p \in Providers :
       (mounted[p] /\ mounted'[p]) => View'[p].actions = View[p].actions]_vars

(* what reading `.current` of the props argument gives *)
ReadCurrent(arg) == IF "current" \in DOMAIN arg THEN Obj(arg["current"]) ELSE Undefined

(* C8, as stated: the props argument config.actions got is a RefObject, and
   reading its `.current` in an action gives the props the Provider was
   rendered with most recently. *)
C8_PropsIsRefObject ==
  \A p \in Providers :
    mounted[p] => ReadCurrent(actionsHeap[refActions[p].value].props) = Obj(Rest(jsx[p]))

(* C9: config.store, when the store is first created, and config.actions get
   the props of the Provider without `children`; the state the descendants
   read first is the one config.store builds from the props of the first
   render: initialCount = 50 gives count 50, no initialCount gives 0. *)
C9_PropsWithoutChildren ==
  [][\A p \in Providers :
       /\ (~mounted[p] /\ mounted'[p]) =>
            /\ last'.calls = <<"store", "actions">>
            /\ View'[p].count.num
                 = (IF "initialCount" \in DOMAIN jsx'[p] THEN jsx'[p].initialCount ELSE 0)
       /\ (mounted'[p] /\ last'.at = p /\ CalledIn("actions")) =>
            /\ "children" \notin DOMAIN actionsHeap'[refActions'[p].value].props
            /\ \A k \in DOMAIN jsx'[p] \ {"children"} :
                 /\ k \in DOMAIN actionsHeap'[refActions'[p].value].props
                 /\ actionsHeap'[refActions'[p].value].props[k] = jsx'[p][k]
            /\ DOMAIN actionsHeap'[refActions'[p].value].props \subseteq DOMAIN jsx'[p]]_vars
C9_Witness ==
  /\ last = Op("mount", 2, <<"store", "actions">>)
  /\ jsx[2] = [initialCount |-> 50, children |-> "c1"]
  /\ View[2].count = Returned(50, EmptyProps)
  /\ mounted[1] /\ "initialCount" \notin DOMAIN jsx[1]
  /\ View[1].count = Returned(0, EmptyProps)
  /\ actionsHeap[View[2].actions.num].props = [initialCount |-> 50]

(* C10: createGlobalState returns the pair of the value config.hooks
   returned and the value config.actions returned, as they are, and
   createProviderState returns the value config.hooks returned, useActions
   and the Provider; a factory call invokes config.hooks exactly once, and a
   createGlobalState call invokes config.actions exactly once; nothing else
   invokes config.hooks. *)
C10_FactoryTuples ==
  /\ \A g \in Globals :
       gDone[g] =>
         /\ Len(gRet[g]) = 2
         /\ gRet[g][1] = gCfg[g].hooks /\ gRet[g][1].kind = "hooks"
         /\ gRet[g][2] = gCfg[g].actions /\ gRet[g][2].kind = "actions"
         /\ actionsHeap[gRet[g][2].id] = GlobalConfigActions(gCfg[g].store)
  /\ pDone =>
       /\ Len(pRet) = 3
       /\ pRet[1] = pCfg /\ pRet[1].kind = "hooks"
       /\ pRet[2] = UseActionsHookValue
       /\ pRet[3] = StoreProviderValue
  /\ last.op = "createGlobalState" =>
       Count(last.calls, "hooks") = 1 /\ Count(last.calls, "actions") = 1
  /\ last.op = "createProviderState" =>
       Count(last.calls, "hooks") = 1 /\ Count(last.calls, "actions") = 0
  /\ last.op \notin {"createGlobalState", "createProviderState"} =>
       Count(last.calls, "hooks") = 0
C10_Witness ==
  /\ gDone[1] /\ gDone[2] /\ pDone
  /\ gRet[1] # gRet[2]
  /\ last.op = "createProviderState"
  /\ nSet = 1

----------------------------------------------------------------------------
(* C11: the error an accessor throws outside every Provider has the message
   "Missing '<name>'", <name> being config.displayName if one was given and
   is not empty and "StoreProvider" otherwise; the hook with a selector, the
   hook without one and useActions throw the same message. *)
C11_ExpectedMessage ==
  IF pName = Str("CounterProvider")
  THEN "Missing 'CounterProvider'"
  ELSE "Missing 'StoreProvider'"
C11_MissingMessage ==
  \A c \in Places :
    (View[c].exists /\ \A p \in Ancestors(c) : ~mounted[p]) =>
      /\ View[c].actions = Throw(C11_ExpectedMessage)
      /\ View[c].count = Throw(C11_ExpectedMessage)
      /\ View[c].whole = Throw(C11_ExpectedMessage)
C11_Witness ==
  /\ pName = Str("")
  /\ mounted[1]
  /\ View[0].actions.message = "Missing 'StoreProvider'"
  /\ View[0].count.message = "Missing 'StoreProvider'"
  /\ ~View[1].actions.threw

(* C12: a global action can be called at any time, whether the components
   that use the hooks are mounted or not (not yet, or not any more); whenever
   they are mounted, what their hooks returned in the latest render is the
   state with every update made so far, and so is what a hook returns to
   any caller. *)
C12_GlobalActionsAnytime ==
  \A g \in Globals :
    gDone[g] =>
      /\ nSet < MaxSets =>
           \A method \in GlobalMethods : \A arg \in MethodArgs(method) :
             ENABLED GlobalInvoke(g, method, arg)
      /\ \A c \in GlobalComponents :
           /\ GlobalView[g][c] = Returned(heap[gCfg[g].store][c], EmptyProps)
           /\ gMounted[g] => gShown[g][c] = GlobalView[g][c]
C12_Witness ==
  /\ last.op = "globalMount" /\ last.at = 1
  /\ nSet = 2
  /\ gShown[1] = [bears |-> Returned(5, EmptyProps), fishes |-> Returned(1, EmptyProps)]

(* C13: the setState call of an action merges shallowly: the keys of the
   partial state (given, or computed by the callback from the state at the
   moment of the call) get the new values, and every other key of the state
   keeps its value. *)
C13_Partial(old, method, arg) ==
  CASE method = "increaseBears" -> [bears |-> old.bears + 1]
    [] method = "removeAllBears" -> [bears |-> 0]
    [] method = "updateBears" -> [bears |-> arg]
    [] method = "increaseFish" -> [fishes |-> old.fishes + 1]
C13_ShallowMerge ==
  [][\A g \in Globals :
       (gDone[g] /\ last'.op \in GlobalMethods /\ last'.at = g) =>
         LET old == heap[gCfg[g].store]
             new == heap'[gCfg[g].store]
             partial == C13_Partial(old, last'.op, last'.arg)
         IN /\ DOMAIN new = DOMAIN old
            /\ \A k \in DOMAIN partial : new[k] = partial[k]
            /\ \A k \in DOMAIN old \ DOMAIN partial : new[k] = old[k]]_vars
C13_Witness ==
  /\ last.op = "updateBears" /\ last.at = 2 /\ last.arg = 5
  /\ nSet = 2
  /\ heap[gCfg[2].store] = [bears |-> 5, fishes |-> 1]

(* C14: updates are synchronous and none is lost.  With Providers that keep
   their props, whatever the order in which click handlers and timers call
   increment: the count of every store is its initial count plus a multiple
   n of its step, the n of all stores add up to the number of increment calls
   made, and what the hooks read after a call shows its update. *)
C14_Initial(p) == IF "initialCount" \in DOMAIN jsx[p] THEN jsx[p].initialCount ELSE 0
C14_Step(p) == IF "incrementBy" \in DOMAIN jsx[p] THEN jsx[p].incrementBy ELSE 1
C14_Added(p) == IF mounted[p] THEN heap[refStore[p].value].count - C14_Initial(p) ELSE 0
C14_NoUpdateLost ==
  /\ \A p \in Providers :
       /\ C14_Added(p) >= 0
       /\ C14_Added(p) % C14_Step(p) = 0
       /\ mounted[p] => View[p].count.num = C14_Initial(p) + C14_Added(p)
  /\ (C14_Added(1) \div C14_Step(1)) + (C14_Added(2) \div C14_Step(2))
       + (C14_Added(3) \div C14_Step(3)) = nSet
C14_Witness ==
  /\ jsx[1] = [initialCount |-> 50, children |-> "c2"]
  /\ jsx[3] = [incrementBy |-> 10, children |-> "c1"]
  /\ last.op = "increment" /\ last.src = "timer" /\ last.at = View[3].actions.num
  /\ nSet = 2
  /\ View[1].count.num = 51
  /\ View[3].count.num = 10

(* C15: a state update re-renders a mounted component that reads the state
   through a hook with a selector exactly if the value its selector returns
   has changed: increaseFish re-renders the reader of useFishes and not the
   reader of useBears, whose latest render stays as it was. *)
C15_RerenderOnSelectedChange ==
  [][\A g \in Globals :
       (gMounted[g] /\ last'.op \in GlobalMethods /\ last'.at = g) =>
         /\ \A c \in GlobalComponents :
              /\ c \in last'.renders <=> heap'[gCfg[g].store][c] # heap[gCfg[g].store][c]
              /\ c \notin last'.renders => gShown'[g][c] = gShown[g][c]
              /\ gShown'[g][c].num = heap'[gCfg[g].store][c]
         /\ last'.op = "increaseFish" => last'.renders = {"fishes"}]_vars
C15_Witness ==
  /\ gMounted[1]
  /\ last.op = "increaseFish" /\ last.at = 1 /\ last.renders = {"fishes"}
  /\ gShown[1] = [bears |-> Returned(1, EmptyProps), fishes |-> Returned(1, EmptyProps)]

(* C16: the useStore hook given to config.hooks takes an optional selector,
   with createGlobalState and with createProviderState alike: with a selector
   it returns the selector applied to the current state of the bound store,
   without one the whole current state. *)
C16_OptionalSelector ==
  /\ \A g \in Globals :
       gDone[g] =>
         /\ GlobalView[g].bears = Returned(heap[gCfg[g].store].bears, EmptyProps)
         /\ GlobalView[g].fishes = Returned(heap[gCfg[g].store].fishes, EmptyProps)
         /\ GlobalView[g].whole = Returned(0, heap[gCfg[g].store])
  /\ \A p \in Providers :
       mounted[p] =>
         /\ View[p].count = Returned(heap[refStore[p].value].count, EmptyProps)
         /\ View[p].whole = Returned(0, heap[refStore[p].value])
C16_Witness ==
  /\ gDone[1] /\ mounted[2]
  /\ GlobalView[1].bears = Returned(1, EmptyProps)
  /\ GlobalView[1].whole = Returned(0, [bears |-> 1, fishes |-> 0])
  /\ View[2].count = Returned(51, EmptyProps)
  /\ View[2].whole = Returned(0, [count |-> 51])

(* C17: a re-render of a mounted Provider calls config.actions again, once,
   exactly if the new props without `children` differ in some entry from the
   props config.actions got at its previous call; every other re-render, one
   that changes only `children` included, provides the same actions object
   again. *)
C17_WithoutChildren(inProps) == [k \in DOMAIN inProps \ {"children"} |-> inProps[k]]
C17_ActionsRecreatedIffPropsChange ==
  [][\A p \in Providers :
       RerenderedAt(p) =>
         LET before == actionsHeap[refActions[p].value].props
             now == C17_WithoutChildren(jsx'[p])
             same == /\ DOMAIN now = DOMAIN before
                     /\ \A k \in DOMAIN now : now[k] = before[k]
         IN /\ Count(last'.calls, "actions") = (IF same THEN 0 ELSE 1)
            /\ same <=> View'[p].actions = View[p].actions
            /\ same => actionsHeap'[View'[p].actions.num] = actionsHeap[View[p].actions.num]]_vars
C17_Witness ==
  /\ last = Op("rerender", 1, NoCalls)
  /\ jsx[1] = [incrementBy |-> 10, children |-> "c2"]
  /\ View[1].count.num = 20

(* C18: over the renders of one component instance, useRefMemo calls factory
   in the first render and in exactly those later renders whose deps are not
   shallow-equal to the deps stored at the latest factory call, and it returns
   the new value; in every other render it returns the stored value and
   leaves the ref alone; if every render omits deps, factory runs once. *)
C18_SameDeps(a, b) ==
  IF a.t = "undefined" \/ b.t = "undefined"
  THEN a.t = "undefined" /\ b.t = "undefined"
  ELSE a.v = b.v
C18_RefMemoStable ==
  [][memo'.renders = memo.renders + 1 =>
       LET runs == memo.renders = 0 \/ ~C18_SameDeps(memo.ref.deps, memo'.deps)
       IN /\ memo'.factoryCalls = memo.factoryCalls + (IF runs THEN 1 ELSE 0)
          /\ runs => /\ memo'.returned = memo'.factoryCalls
                      /\ memo'.ref = [set |-> TRUE, deps |-> memo'.deps,
                                      value |-> memo'.returned]
          /\ ~runs => /\ memo'.returned = memo.returned
                       /\ memo'.ref = memo.ref
          /\ memo'.omitted => memo'.factoryCalls = 1]_vars
C18_Witness ==
  /\ memo.renders = 3
  /\ ~memo.omitted
  /\ memo.factoryCalls = 2
  /\ memo.returned = 2
  /\ memo.deps = Obj([incrementBy |-> 10])
  /\ memo.ref.deps = Obj([incrementBy |-> 10])

(* C19: a re-render of a mounted Provider, with new props or not, leaves the
   store and the count that its consumers read as they were, and an increment
   through the actions that useActions returned on the latest render adds the
   incrementBy of the latest props (1 if there is none) to that count: after
   incrementBy changed from 1 to 10 the count goes from 1 to 11. *)
C19_IncrementBy(p) == IF "incrementBy" \in DOMAIN jsx[p] THEN jsx[p].incrementBy ELSE 1
C19_NewPropsSameStore ==
  [][\A p \in Providers :
       /\ RerenderedAt(p) =>
            /\ refStore'[p].value = refStore[p].value
            /\ View'[p].count = View[p].count
       /\ (mounted[p] /\ last'.op = "increment" /\ last'.at = View[p].actions.num) =>
            /\ refStore'[p].value = refStore[p].value
            /\ View'[p].count.num = View[p].count.num + C19_IncrementBy(p)]_vars
C19_Witness ==
  /\ last.op = "increment"
  /\ mounted[1]
  /\ last.at = View[1].actions.num
  /\ "incrementBy" \in DOMAIN jsx[1]
  /\ jsx[1].incrementBy = 10
  /\ View[1].count.num = 11

(* C20: in every state, the actions that useActions returns to a component
   inside a mounted Provider were built by config.actions from the store that
   the store hook reads in that component, and both belong to the innermost
   mounted Provider around it, also when that Provider is nested in another
   one of the same factory and after its actions were built again. *)
C20_ActionsPairedWithStore ==
  \A c \in Providers :
    View[c].exists =>
      LET store == UseContext(refStore, mounted, c)
          actions == View[c].actions
      IN /\ ~actions.threw
         /\ ~View[c].whole.threw
         /\ store = Provided(refStore[c].value)
         /\ actions.num = refActions[c].value
         /\ actionsHeap[actions.num].store = store.id
         /\ View[c].whole.obj = heap[actionsHeap[actions.num].store]
C20_Witness ==
  /\ mounted[1]
  /\ mounted[3]
  /\ last.op = "rerender"
  /\ last.at = 3
  /\ Count(last.calls, "actions") = 1
  /\ View[3].count.num = 10
  /\ View[1].count.num = 1
  /\ actionsHeap[View[3].actions.num].store = refStore[3].value

(* C21: with a Provider mounted inside another Provider of the same factory,
   the components below the inner one read the inner store and the ones
   below the outer one only read the outer store; an increment through the
   actions that useActions returns below the inner Provider changes the
   count read there and leaves the outer store and what is read from it
   unchanged. *)
C21_NestedScopes ==
  [][\A p \in Providers :
       LET outer == Parent(p)
       IN /\ (outer # 0 /\ mounted'[p] /\ mounted'[outer]) =>
               /\ View'[p].whole.obj = heap'[refStore'[p].value]
               /\ View'[outer].whole.obj = heap'[refStore'[outer].value]
               /\ refStore'[p].value # refStore'[outer].value
          /\ (outer # 0 /\ mounted[p] /\ mounted[outer]
                /\ last'.op = "increment" /\ last'.at = View[p].actions.num) =>
               /\ heap'[refStore[outer].value] = heap[refStore[outer].value]
               /\ View'[outer].count = View[outer].count
               /\ View'[p].count # View[p].count]_vars
C21_Witness ==
  /\ mounted[1]
  /\ mounted[3]
  /\ last.op = "increment"
  /\ last.at = View[3].actions.num
  /\ View[1].count.num = 1
  /\ View[3].count.num = 10

(* C22: the hooks of factory B used in a component at a place throw the
   Missing error exactly if no StoreProvider of B is mounted around the
   place, whatever StoreProviders of A are; inside a StoreProvider of B they
   read B's store, which is none of A's.  Two createGlobalState calls own
   different stores, and an action of one leaves what the hooks of the other
   return unchanged. *)
C22_ScopesSeparate ==
  [][/\ \A c \in Places :
          LET b == ConsumersOf("B")'[c]
              inB == \E p \in Ancestors(c) : factoryB'.mounted[p]
          IN b.exists =>
               /\ b.actions.threw <=> ~inB
               /\ b.count.threw <=> ~inB
               /\ ~inB => /\ b.actions = Throw("Missing 'StoreProvider'")
                           /\ b.whole = Throw("Missing 'StoreProvider'")
               /\ inB => /\ b.actions.num = factoryB'.refActions[c].value
                          /\ b.actions.num # View'[c].actions.num
                          /\ b.whole.obj = heap'[factoryB'.refStore[c].value]
                          /\ factoryB'.refStore[c].value # refStore'[c].value
     /\ \A g, other \in Globals :
          (g # other /\ gDone[g] /\ gDone[other] /\ nSet' = nSet + 1
             /\ last'.op \in GlobalMethods /\ last'.at = g) =>
            /\ gRet[g][1].id # gRet[other][1].id
            /\ GlobalView'[other] = GlobalView[other]]_vars
C22_Witness ==
  /\ mounted[1] /\ mounted[2]
  /\ factoryB.mounted[2]
  /\ ConsumersOf("B")[1].actions.threw
  /\ ConsumersOf("B")[2].count.num = 51
  /\ View[2].count.num = 0
  /\ gDone[1] /\ gDone[2]
  /\ GlobalView[1].bears.num = 1
  /\ GlobalView[2].bears.num = 0

(* C23: an accessor call that throws the Missing error called neither
   config.store nor config.actions and left the stores, their states, the
   actions objects and the Providers as they were; it throws exactly outside
   every mounted Provider. *)
C23_FailedAccessNoEffect ==
  [][last'.op \in Accessors =>
       /\ last'.src = "throw" <=> (\A p \in Ancestors(last'.at) : ~mounted[p])
       /\ last'.src = "throw" =>
            /\ last'.calls = NoCalls
            /\ DOMAIN heap' = DOMAIN heap
            /\ heap' = heap
            /\ actionsHeap' = actionsHeap
            /\ <<mounted', refStore', refActions', jsx'>> = <<mounted, refStore, refActions, jsx>>
            /\ View' = View]_vars
C23_Witness ==
  /\ last.op = "useCount"
  /\ last.at = 0
  /\ last.src = "throw"
  /\ mounted[1]
  /\ View[1].count.num = 2

(* C24: with a config.actions that returns undefined, null, false, 0 or "",
   useActions in a component inside a mounted Provider returns the value the
   latest config.actions call of the nearest Provider returned and does not
   throw; it throws outside every mounted Provider only. *)
C24_SentinelOnly ==
  /\ \A c \in Places :
       View[c].exists =>
         IF Nearest(mounted, c) = 0
         THEN View[c].actions = Throw("Missing 'StoreProvider'")
         ELSE /\ refActions[Nearest(mounted, c)].value \in FalsyValues
              /\ View[c].actions = Returned(refActions[Nearest(mounted, c)].value, EmptyProps)
  /\ last.op = "useActions" =>
       (last.src = "throw" <=> Nearest(mounted, last.at) = 0)
C24_Witness ==
  /\ last = [Op("useActions", 3, NoCalls) EXCEPT !.src = "return"]
  /\ View[3].actions.num = JsUndefined
  /\ View[1].actions.num = JsZero
  /\ View[0].actions.threw

(* C25: an increment through an actions object of a Provider that has
   unmounted, kept by a timer, adds its step to the count of the store that
   Provider had, which no mounted Provider has, and it leaves the store and
   the state of every mounted Provider, one mounted later at the same place
   included, and what every consumer reads as they were. *)
C25_StaleActionsIsolated ==
  [][(last'.op = "increment" /\ last'.at \in stale) =>
       LET a == actionsHeap[last'.at]
       IN /\ a.store \in DOMAIN heap
          /\ \A p \in Providers : mounted[p] => refStore[p].value # a.store
          /\ heap'[a.store].count = heap[a.store].count + IncrementStep(a)
          /\ \A p \in Providers :
               mounted[p] => /\ refStore'[p] = refStore[p]
                             /\ heap'[refStore[p].value] = heap[refStore[p].value]
          /\ mounted' = mounted
          /\ View' = View]_vars
C25_Witness ==
  /\ last.op = "increment"
  /\ last.at \in stale
  /\ last.at \div 10 = 1
  /\ heap[actionsHeap[last.at].store].count = 2
  /\ mounted[1]
  /\ View[1].count.num = 50

(* C26: createGlobalState calls config.store, config.actions and config.hooks
   in this order before it returns, the actions getting setState and getState
   of the store just created; createProviderState calls config.hooks only and
   creates no store; a Provider that mounts calls config.store and then
   config.actions, for a new store; no other operation calls a config
   function or creates a store or an actions object. *)
C26_EagerOrdered ==
  [][/\ last'.op = "createGlobalState" =>
          LET g == last'.at
          IN /\ ~gDone[g] /\ gDone'[g]
             /\ last'.calls = <<"store", "actions", "hooks">>
             /\ gCfg'[g].store \in DOMAIN heap' \ DOMAIN heap
             /\ gCfg'[g].actions.id \in DOMAIN actionsHeap' \ DOMAIN actionsHeap
             /\ actionsHeap'[gCfg'[g].actions.id].store = gCfg'[g].store
             /\ gRet'[g] = <<gCfg'[g].hooks, gCfg'[g].actions>>
     /\ last'.op \in {"createProviderState", "createProviderStateB"} =>
          /\ last'.calls = <<"hooks">>
          /\ heap' = heap
          /\ actionsHeap' = actionsHeap
     /\ last'.op \in {"mount", "mountB"} =>
          LET rs == IF last'.op = "mount" THEN refStore'[last'.at]
                    ELSE factoryB'.refStore[last'.at]
              ra == IF last'.op = "mount" THEN refActions'[last'.at]
                    ELSE factoryB'.refActions[last'.at]
          IN /\ last'.calls = <<"store", "actions">>
             /\ rs.value \in DOMAIN heap' \ DOMAIN heap
             /\ ra.value \in DOMAIN actionsHeap' \ DOMAIN actionsHeap
             /\ actionsHeap'[ra.value].store = rs.value
     /\ last'.op \notin {"createGlobalState", "createProviderState", "createProviderStateB",
                          "mount", "mountB"} =>
          /\ last'.calls = NoCalls
          /\ DOMAIN heap' \subseteq DOMAIN heap
          /\ DOMAIN actionsHeap' \subseteq DOMAIN actionsHeap]_vars
C26_Witness ==
  /\ gDone[1]
  /\ pDone
  /\ factoryB.done
  /\ mounted[1]
  /\ last = Op("mount", 3, <<"store", "actions">>)

(* C27, as stated: a re-render of a mounted StoreProvider of createLocalStore,
   with the same props or with other ones, keeps the store, and the
   components below it read the same count after it as before. *)
C27_LocalStoreKept ==
  [][\A p \in Providers :
       RerenderedAt(p) =>
         /\ refStore'[p].value = refStore[p].value
         /\ View'[p].count = View[p].count]_vars

(* C28, as stated: a re-render of a mounted StoreProvider of
   createStoreWithActions replaces the store exactly if it replaces the
   actions, and it does so exactly if a prop other than children changed; if
   none did, new children or not, the store and the count read below the
   StoreProvider are the same after it. *)
C28_RecreatedIffConfigChanges ==
  [][\A p \in Providers :
       RerenderedAt(p) =>
         LET changed == Rest(jsx'[p]) # Rest(jsx[p])
         IN /\ refStore'[p].value # refStore[p].value
                 <=> refActions'[p].value # refActions[p].value
            /\ CalledIn("store") <=> changed
            /\ ~changed => /\ refStore'[p].value = refStore[p].value
                            /\ ViewWithDefault'[p].count = ViewWithDefault[p].count]_vars

(* C29: once createStoreWithActions has returned, the hooks called in a
   component outside every StoreProvider return the state and the actions of
   the global store, which was created with props undefined and is the store
   of no StoreProvider; an increment through these actions adds 1 to its
   count and leaves the store of every mounted StoreProvider and what is read
   below it unchanged. *)
C29_GlobalStoreIsDefault ==
  [][/\ globalStore'.done =>
          LET outside == ViewWithDefault'[0]
          IN /\ outside.exists
             /\ ~outside.count.threw /\ ~outside.whole.threw /\ ~outside.actions.threw
             /\ outside.whole.obj = heap'[globalStore'.store]
             /\ outside.count.num = heap'[globalStore'.store].count
             /\ outside.actions.num = globalStore'.actions
             /\ actionsHeap'[globalStore'.actions] = ConfigActions(globalStore'.store, EmptyProps)
             /\ \A p \in Providers : mounted'[p] => refStore'[p].value # globalStore'.store
     /\ last'.op = "incrementDefault" =>
          /\ heap'[globalStore.store].count = heap[globalStore.store].count + 1
          /\ \A p \in Providers :
               mounted[p] => /\ heap'[refStore[p].value] = heap[refStore[p].value]
                             /\ ViewWithDefault'[p] = ViewWithDefault[p]]_vars
C29_Witness ==
  /\ last.op = "incrementDefault"
  /\ mounted[1]
  /\ ViewWithDefault[1].count.num = 51
  /\ ViewWithDefault[0].count.num = 1

====
